---- MODULE Spec2Model ----
(***************************************************************************)
(* Weighted-transducer text normalization: the preprocessing cascade, the  *)
(* tokenize-and-classify graph of ClassifyFst, the category taggers it     *)
(* unions (whitelist, cardinal, telephone, date, math, word, punctuation)  *)
(* and shortest-path selection.                                            *)
(*                                                                         *)
(* A text is a sequence of symbols.  Weights are integers: one unit is     *)
(* 0.0001, so the bias 1.1 is 11000 and MIN_NEG_WEIGHT is -1.              *)
(*                                                                         *)
(* A behaviour is one walk of the input through the composed transducer:   *)
(* first the rewrite rules in cascade order, then one accepting path of    *)
(* the classify graph, arc by arc; every reachable accepting state is one  *)
(* output of the transducer for that input.                                *)
(***************************************************************************)
EXTENDS Integers, Sequences, FiniteSets, TLC

VARIABLES
    grammar,    \* which transducer is applied: a ClassifyFst or a MathFst
    raw,        \* the input text
    text,       \* the text as rewritten by the rules applied so far
    stage,      \* number of cascade rules applied
    dist,       \* shortest distances to acceptance, while they are being computed
    optimum,    \* shortest distance of text through the graph
    pos,        \* number of symbols of text consumed by the path
    tstate,     \* state of the classify graph
    cost,       \* weight of the path so far
    tok,        \* the token the path emitted last
    nTok,       \* number of classify tokens the path emitted
    nWord,      \* number of them that came from the fallback word category
    nPunct,     \* number of punctuation tokens the path emitted
    gap,        \* number of spaces emitted since the last token (2 stands for 2 or more)
    fmt,        \* TRUE while every emitted token had its field markers and field spacing
    spaced,     \* TRUE while every token after the first came one space after the one before
    cover,      \* cover[i]: number of spans of the path that consumed text[i]
    selected,   \* TRUE once shortest-path has selected this path
    calls,      \* number of normalize calls completed on this input
    prev,       \* what the previous call selected
    rule,       \* the rewrite rule applied on its own, or NoRule
    passes,     \* number of times it has been applied
    prior,      \* the text before its last application
    files,      \* the cache directory: what each archive file holds
    lexicon,    \* the contents of the whitelist file at each path
    config,     \* the arguments of each construction under way
    pc,         \* the line each construction has reached
    fst,        \* the grammar each construction holds (self.fst)
    builds,     \* number of constructions started
    rebuilt,    \* the archive and the grammar of the construction that rebuilt last
    transducer, \* the lexicon transducer applied on its own, or NoLexicon
    outs,       \* the output strings it gave for the input
    spoken,     \* what the verbalizer has written for the tokens walked over
    vstage,     \* how far a tagger and its verbalizer have come with the input
    tagged,     \* the token strings the tagger wrote for the input
    verbalized  \* the spoken strings the verbalizer wrote for them

\* the variables of one walk of an input through a transducer
walkVars == <<grammar, raw, text, stage, dist, optimum, pos, tstate, cost, tok, nTok,
              nWord, nPunct, gap, fmt, spaced, cover, selected, calls, prev>>

\* the variables of a rule applied on its own
ruleVars == <<rule, passes, prior>>

\* what a walk leaves alone
cacheVars == <<files, lexicon, config, pc, fst, builds, rebuilt>>
lexVars == <<transducer, outs>>
outVars == <<spoken>>
tagVars == <<vstage, tagged, verbalized>>
extraVars == <<ruleVars, cacheVars, lexVars, outVars, tagVars>>

vars == <<walkVars, extraVars>>

-----------------------------------------------------------------------------
(* Bounds of the model *)

\* longest text over the core alphabet
MaxLen == 2
\* longest text over the math alphabet
MaxMathLen == 5
\* number of numbers in the long semicolon-joined list
MaxItems == 32
\* normalize calls on one input
MaxCalls == 2

-----------------------------------------------------------------------------
(* Symbols *)

NEMO_DIGIT == {"0", "1", "2"}
\* the native digits of the grammar's script (zero and one)
NativeDigit == {"n0", "n1"}
\* a letter of the grammar's script
NativeLetter == {"k"}
NEMO_ALPHA == {"a"}
NEMO_SPACE == " "
NEMO_WHITE_SPACE == {" "}
\* "em" is the em-dash, "sq" the square-root sign
PunctMarks == {"+", "-", "=", ";", "_", "em"}
MathSymbols == {"sq"}
NEMO_CHAR == NEMO_DIGIT \cup NativeDigit \cup NativeLetter \cup NEMO_ALPHA
             \cup NEMO_WHITE_SPACE \cup PunctMarks \cup MathSymbols
NEMO_NOT_SPACE == NEMO_CHAR \ NEMO_WHITE_SPACE
AllDigits == NEMO_DIGIT \cup NativeDigit
\* the Unicode block of the script: its letters and its digits
ScriptBlock == NativeLetter \cup NativeDigit

IsZero(c) == c \in {"0", "n0"}

ClassifyLangs == {"bn", "hi", "hne", "mr"}
Classifiers == ClassifyLangs \cup {"en"}
MathTaggers == {"te.math", "as.math", "kn.math", "mag.math"}
Grammars == ClassifyLangs \cup MathTaggers

RECURSIVE SeqsUpTo(_, _)
SeqsUpTo(S, n) ==
    IF n = 0 THEN {<<>>}
    ELSE LET shorter == SeqsUpTo(S, n - 1)
         IN  shorter \cup {Append(s, c) : s \in {t \in shorter : Len(t) = n - 1}, c \in S}

Min(S) == CHOOSE x \in S : \A y \in S : x <= y

-----------------------------------------------------------------------------
(* Context-dependent rewrite rules *)

\* A rule replaces the symbol `from` by `to` (or, when from = "", inserts `to`)
\* where the symbol before is in `left` (any, when anyLeft) and the symbol
\* after is in `right`.
Rule(n, f, t, al, l, r) ==
    [name |-> n, from |-> f, to |-> t, anyLeft |-> al, left |-> l, right |-> r]

NoRule == Rule("none", "", <<>>, FALSE, {}, {})

math_symbol_to_spaced ==
    Rule("math_symbol_to_spaced", "", <<" ">>, FALSE, MathSymbols, AllDigits \cup NEMO_ALPHA)
digit_indic_insert_space ==
    Rule("digit_indic_insert_space", "", <<" ">>, FALSE, AllDigits, ScriptBlock)
underscore_to_space ==
    Rule("underscore_to_space", "_", <<" ">>, FALSE, AllDigits, ScriptBlock)
emdash_joiner_to_space ==
    Rule("emdash_joiner_to_space", "em", <<" ">>, FALSE, AllDigits, ScriptBlock)
emdash_to_spaced ==
    Rule("emdash_to_spaced", "em", <<"em", " ">>, TRUE, {}, AllDigits)
equals_to_spaced ==
    Rule("equals_to_spaced", "=", <<" ", "=", " ">>, FALSE, NEMO_NOT_SPACE \ AllDigits, AllDigits)
joiner_hyphen_to_space ==
    Rule("joiner_hyphen_to_space", "-", <<" ">>, FALSE, AllDigits, ScriptBlock)

\* The rules in composition order: the first is applied to the raw input.
Cascade(g) ==
    CASE g = "bn" -> <<math_symbol_to_spaced, digit_indic_insert_space, underscore_to_space,
                       emdash_joiner_to_space, emdash_to_spaced, equals_to_spaced,
                       joiner_hyphen_to_space>>
      [] g \in {"mr", "hne"} -> <<math_symbol_to_spaced, emdash_joiner_to_space,
                                  emdash_to_spaced, equals_to_spaced, joiner_hyphen_to_space>>
      [] OTHER -> <<>>

LeftOK(r, s, i) == r.anyLeft \/ (i > 1 /\ s[i - 1] \in r.left)
\* a right context that is never read: any following symbol will do
RightOKUnread(r, s, i) == i < Len(s)

RightOK(r, s, i) == i < Len(s) /\ s[i + 1] \in r.right

\* what one obligatory left-to-right pass of rule r writes for symbol i of s
Rewritten(r, s, i) ==
    LET here == IF r.from # "" /\ s[i] = r.from /\ LeftOK(r, s, i) /\ RightOK(r, s, i)
                THEN r.to ELSE <<s[i]>>
        after == IF r.from = "" /\ s[i] \in r.left /\ RightOK(r, s, i)
                 THEN r.to ELSE <<>>
    IN  here \o after

\* what the pass writes for the symbols lo..hi
RECURSIVE RewriteRange(_, _, _, _)
RewriteRange(r, s, lo, hi) ==
    IF lo > hi THEN <<>>
    ELSE IF lo = hi THEN Rewritten(r, s, lo)
    ELSE LET mid == (lo + hi) \div 2
         IN  RewriteRange(r, s, lo, mid) \o RewriteRange(r, s, mid + 1, hi)

cdrewrite(r, s) == RewriteRange(r, s, 1, Len(s))

-----------------------------------------------------------------------------
(* Weights *)

WhitelistBias == 10100
CardinalBias == 11000
MathBiasHne == 11500
PunctWeight == 21000
WordBias == 1000000
MIN_NEG_WEIGHT == -1
TeensAndTiesWeight == -1000
DeletedZeroWeight == -1000
LeadingZeroWeight == 5000
TightMinusEqualsWeight == -2000
TightMinusTextWeight == -1500
\* weight of an input nothing accepts
Infinity == 1000000000

TelephoneBias(g) == IF g = "bn" THEN 5000 ELSE 10000
MathBias(g) == IF g = "hne" THEN MathBiasHne ELSE 11000

-----------------------------------------------------------------------------
(* Tokens.  A token is a category name, the items it emits between the     *)
(* braces and its weight; an item is a field [f, v] or, with f = " ", one  *)
(* space.  A field with f = "" is text emitted without any field marker.  *)

Field(f, v) == [f |-> f, v |-> v]
Space == [f |-> " ", v |-> <<>>]
Token(c, b, w) == [cat |-> c, body |-> b, w |-> w, via |-> c]
NoToken == Token("none", <<>>, 0)

IsField(x) == x.f # " "

\* the names of the fields of token t, in order
FieldNames(t) ==
    LET fs == SelectSeq(t.body, IsField) IN [i \in 1..Len(fs) |-> fs[i].f]

\* the value of the field named f of token t
FieldValue(t, f) ==
    LET fs == SelectSeq(t.body, LAMBDA x : x.f = f)
    IN  IF fs = <<>> THEN <<"absent">> ELSE fs[1].v

SameScript(u) == (\A i \in 1..Len(u) : u[i] \in NEMO_DIGIT)
                 \/ (\A i \in 1..Len(u) : u[i] \in NativeDigit)

\* number of zeros at the front of u
RECURSIVE LeadingZeros(_)
LeadingZeros(u) ==
    IF u = <<>> \/ ~IsZero(u[1]) THEN 0 ELSE 1 + LeadingZeros(Tail(u))

\* digits read by the leading digit graph of an n-digit number (n >= 3)
LeadLen(n) == IF n \in {5, 7, 9} THEN 2 ELSE 1

\* Weight of the path of the number graph that reads the digits u, which
\* start with a non-zero digit; top is TRUE for the graph in the final union.
RECURSIVE GraphWeight(_, _)
GraphWeight(u, top) ==
    LET n == Len(u) IN
    IF n = 1 THEN 0
    ELSE IF n = 2 THEN (IF top THEN TeensAndTiesWeight ELSE 0)
    ELSE LET rest == SubSeq(u, LeadLen(n) + 1, n)
             z == LeadingZeros(rest)
             leadW == IF LeadLen(n) = 2 THEN TeensAndTiesWeight ELSE 0
         IN  IF z = Len(rest) THEN leadW + z * DeletedZeroWeight
             ELSE leadW + z * DeletedZeroWeight
                  + GraphWeight(SubSeq(rest, z + 1, Len(rest)), FALSE)

\* longest digit string the cardinal tagger composes with its number graph
MaxCardinalDigits == 9

\* cardinal.final_graph: the digit strings it reads
InFinalGraph(u) ==
    /\ Len(u) \in 1..MaxCardinalDigits
    /\ \A i \in 1..Len(u) : u[i] \in AllDigits
    /\ SameScript(u)
    /\ Len(u) > 2 => ~IsZero(u[1])

FinalGraphWeight(u) ==
    IF Len(u) = 2 /\ IsZero(u[1]) THEN LeadingZeroWeight ELSE GraphWeight(u, TRUE)

\* the spoken form of a number, kept as a mark followed by the number's digits
ToAsciiDigit(c) == CASE c = "n0" -> "0" [] c = "n1" -> "1" [] OTHER -> c

ToAscii(u) == [i \in 1..Len(u) |-> ToAsciiDigit(u[i])]

Reading(u) == <<"num">> \o ToAscii(u)

CardinalFst(u) ==
    LET neg == u # <<>> /\ u[1] = "-"
        d   == IF neg THEN Tail(u) ELSE u
    IN  IF InFinalGraph(d)
        THEN {Token("cardinal",
                    (IF neg THEN <<Field("negative", <<"true">>), Space>> ELSE <<>>)
                    \o <<Field("integer", Reading(d))>>,
                    FinalGraphWeight(d))}
        ELSE {}

\* The English cardinal tagger
ProperNumberWeight == 1000
DigitByDigitWeight == 10000
LongNumberDigits == 5

\* phone_number_pattern: 7, 8 or 9 digits, or 10 digits that do not end in six zeros
phone_number_pattern(d) ==
    \/ Len(d) \in {7, 8, 9}
    \/ Len(d) = 10 /\ \E i \in 5..10 : d[i] # "0"

\* the digit strings the number-name graph reads
InNumberNames(d) == Len(d) >= 1 /\ (d[1] # "0" \/ Len(d) = 1)

\* single_digits_graph: every digit read on its own, a space between two of them
single_digits_graph(d) ==
    [i \in 1..(3 * Len(d) - 1) |->
       CASE i % 3 = 1 -> "num"
         [] i % 3 = 2 -> d[(i + 1) \div 3]
         [] OTHER -> " "]

EnToken(neg, v, w) ==
    Token("cardinal",
          (IF neg THEN <<Field("negative", <<"true">>), Space>> ELSE <<>>)
          \o <<Field("integer", v)>>, w)

\* a tagger in which reading digit by digit is the cheaper of the two branches
EnCardinalFstDigitsFirst(u) ==
    LET neg == u # <<>> /\ u[1] = "-"
        d   == IF neg THEN Tail(u) ELSE u
    IN  IF d = <<>> \/ \E i \in 1..Len(d) : d[i] \notin NEMO_DIGIT THEN {}
        ELSE (IF InNumberNames(d) /\ ~phone_number_pattern(d)
              THEN {EnToken(neg, Reading(d), DigitByDigitWeight)} ELSE {})
             \cup (IF Len(d) >= LongNumberDigits
                   THEN {EnToken(neg, single_digits_graph(d), ProperNumberWeight)} ELSE {})
             \cup (IF d[1] = "0" THEN {EnToken(neg, single_digits_graph(d), 0)} ELSE {})

\* final_graph of the deterministic tagger: number names outside the phone
\* patterns, long numbers digit by digit, numbers with a zero in front
EnCardinalFst(u) ==
    LET neg == u # <<>> /\ u[1] = "-"
        d   == IF neg THEN Tail(u) ELSE u
    IN  IF d = <<>> \/ \E i \in 1..Len(d) : d[i] \notin NEMO_DIGIT THEN {}
        ELSE (IF InNumberNames(d) /\ ~phone_number_pattern(d)
              THEN {EnToken(neg, Reading(d), ProperNumberWeight)} ELSE {})
             \cup (IF Len(d) >= LongNumberDigits
                   THEN {EnToken(neg, single_digits_graph(d), DigitByDigitWeight)} ELSE {})
             \cup (IF d[1] = "0" THEN {EnToken(neg, single_digits_graph(d), 0)} ELSE {})

\* fewest digits of a telephone number
min_digits == 10

\* every digit read as a word of its own, followed by an inserted space
DigitWords(u) ==
    [i \in 1..(3 * Len(u)) |->
       CASE i % 3 = 1 -> "num"
         [] i % 3 = 2 -> ToAsciiDigit(u[(i + 1) \div 3])
         [] OTHER -> " "]

\* phone_without_country: at least min_digits digits of one script, each
\* read as its own word followed by a space
TelephoneFst(u) ==
    IF /\ Len(u) >= min_digits
       /\ \A i \in 1..Len(u) : u[i] \in AllDigits
       /\ SameScript(u)
    THEN {Token("telephone", <<Field("number_part", DigitWords(u))>>, 0)}
    ELSE {}

\* whitelist built without a file: the identity on strings over {a, z}
WhiteListFst(u) ==
    IF \A i \in 1..Len(u) : u[i] = "a"
    THEN {Token("", IF u = <<>> THEN <<>> ELSE <<Field("", u)>>, 0)}
    ELSE {}

IsPunct(c) == c \in PunctMarks

\* spoken form of an operator or sign
Spoken(c) == <<"say", c>>

PunctuationFst(u) ==
    IF u # <<>> /\ \A i \in 1..Len(u) : IsPunct(u[i])
    THEN {Token("", <<Field("name", IF u = <<"=">> THEN Spoken("=") ELSE u)>>, 0)}
    ELSE {}

\* number of symbols of u in the script's character class
CountScript(u) == Cardinality({i \in 1..Len(u) : u[i] \in ScriptBlock})

\* a word tagger that reads only runs of the script's own characters
WordFstScriptOnly(u) ==
    IF u # <<>> /\ \A i \in 1..Len(u) : u[i] \in ScriptBlock
    THEN {Token("", <<Field("name", u)>>, CountScript(u) * MIN_NEG_WEIGHT)}
    ELSE {}

\* the fallback: runs of non-space symbols, punctuation only inside
WordFst(u) ==
    IF /\ \A i \in 1..Len(u) : u[i] \in NEMO_NOT_SPACE
       /\ u # <<>> => (~IsPunct(u[1]) /\ ~IsPunct(u[Len(u)]))
    THEN {Token("", <<Field("name", u)>>, CountScript(u) * MIN_NEG_WEIGHT)}
    ELSE {}

-----------------------------------------------------------------------------
(* Math taggers.  A branch of a math tagger is a concatenation of elements: *)
(* a field whose value is read by a concatenation of parts, the delimiter,  *)
(* an inserted space or a deleted space.                                    *)

Part(k, c, v) == [k |-> k, c |-> c, v |-> v]
number_graph == Part("num", "", <<>>)
operand_graph == Part("opd", "", <<>>)
sqrt_operand == Part("sqopd", "", <<>>)
single_var == Part("var", "", <<>>)
math_operator == Part("op", "", <<>>)
Cross(c, v) == Part("cross", c, v)
InsertText(v) == Part("insert", "", v)
optional_space_sqrt == Part("optdel", "", <<>>)

Fld(f, parts) == [k |-> "fld", f |-> f, parts |-> parts]
delimiter == [k |-> "delimiter", f |-> "", parts |-> <<>>]
insert_space == [k |-> "insert_space", f |-> "", parts |-> <<>>]
delete_space_one == [k |-> "delete_space", f |-> "", parts |-> <<>>]

\* the math tagger a grammar uses; "none" when its classify union has no math branch
MathOf(g) ==
    CASE g = "mr" -> "mr.math"
      [] g = "hne" -> "hne.math"
      [] g \in MathTaggers -> g
      [] OTHER -> "none"

operators(m) == IF m = "hne.math" THEN {"+", "-", "=", "sq"} ELSE {"+", "-", "="}

\* hne: every character that is no operator, space or digit
alpha_char == NEMO_CHAR \ ({"+", "-", "=", "sq"} \cup NEMO_WHITE_SPACE \cup AllDigits)

NumberReadings(u) ==
    IF InFinalGraph(u) THEN {[v |-> Reading(u), w |-> FinalGraphWeight(u)]} ELSE {}

AlphaReadings(u) ==
    IF u # <<>> /\ \A i \in 1..Len(u) : u[i] \in alpha_char
    THEN {[v |-> u, w |-> 0]} ELSE {}

VarReadings(u) == IF Len(u) = 1 /\ u[1] \in NEMO_ALPHA THEN {[v |-> u, w |-> 0]} ELSE {}

\* readings of u by the part of kind k of tagger m
Readings(m, k, u) ==
    CASE k = "num" -> NumberReadings(u)
      [] k = "opd" -> NumberReadings(u) \cup (IF m = "hne.math" THEN AlphaReadings(u) ELSE {})
      [] k = "sqopd" -> NumberReadings(u) \cup VarReadings(u)
      [] k = "var" -> VarReadings(u)
      [] OTHER -> {}

\* matches of one part at position p of u: value, weight and end position
PartMatches(m, part, u, p) ==
    CASE part.k \in {"num", "opd", "sqopd", "var"} ->
           UNION {{[v |-> r.v, w |-> r.w, e |-> e] : r \in Readings(m, part.k, SubSeq(u, p + 1, e))} :
                  e \in (p + 1)..Len(u)}
      [] part.k = "op" ->
           IF p < Len(u) /\ u[p + 1] \in operators(m)
           THEN {[v |-> Spoken(u[p + 1]), w |-> 0, e |-> p + 1]} ELSE {}
      [] part.k = "cross" ->
           IF p < Len(u) /\ u[p + 1] = part.c
           THEN {[v |-> part.v, w |-> 0, e |-> p + 1]} ELSE {}
      [] part.k = "insert" -> {[v |-> part.v, w |-> 0, e |-> p]}
      [] part.k = "optdel" ->
           {[v |-> <<>>, w |-> 0, e |-> p]}
           \cup (IF p < Len(u) /\ u[p + 1] = NEMO_SPACE
                 THEN {[v |-> <<>>, w |-> 0, e |-> p + 1]} ELSE {})

RECURSIVE MatchParts(_, _, _, _, _)
MatchParts(m, parts, i, u, p) ==
    IF i > Len(parts) THEN {[v |-> <<>>, w |-> 0, e |-> p]}
    ELSE UNION {{[v |-> a.v \o r.v, w |-> a.w + r.w, e |-> r.e] :
                   r \in MatchParts(m, parts, i + 1, u, a.e)} :
                a \in PartMatches(m, parts[i], u, p)}

\* matches of one element at position p of u: items emitted, weight, end position
ElementMatches(m, el, u, p) ==
    CASE el.k = "fld" ->
           {[items |-> <<Field(el.f, r.v)>>, w |-> r.w, e |-> r.e] :
              r \in MatchParts(m, el.parts, 1, u, p)}
      [] el.k = "delimiter" ->
           {[items |-> <<>>, w |-> 0, e |-> p], [items |-> <<Space>>, w |-> 0, e |-> p]}
           \cup (IF p < Len(u) /\ u[p + 1] = NEMO_SPACE
                 THEN {[items |-> <<Space>>, w |-> 0, e |-> p + 1]} ELSE {})
      [] el.k = "insert_space" -> {[items |-> <<Space>>, w |-> 0, e |-> p]}
      [] el.k = "delete_space" ->
           IF p < Len(u) /\ u[p + 1] = NEMO_SPACE
           THEN {[items |-> <<>>, w |-> 0, e |-> p + 1]} ELSE {}

\* the outputs of the concatenation pat[i..] on the rest of u after position p
RECURSIVE MatchPattern(_, _, _, _, _)
MatchPattern(m, pat, i, u, p) ==
    IF i > Len(pat) THEN (IF p = Len(u) THEN {[items |-> <<>>, w |-> 0]} ELSE {})
    ELSE UNION {{[items |-> a.items \o r.items, w |-> a.w + r.w] :
                   r \in MatchPattern(m, pat, i + 1, u, a.e)} :
                a \in ElementMatches(m, pat[i], u, p)}

\* the idiom words the branches write themselves
FromWord == <<"from">>
EqualsWord == <<"equals">>
MinusWord == <<"minus">>
SqrtWord == <<"sqrt">>
TimesWord == <<"times">>

Branch(n, w, pat) == [name |-> n, w |-> w, pat |-> pat]

math_expression ==
    <<Fld("left", <<operand_graph>>), delimiter, Fld("operator", <<math_operator>>),
      delimiter, Fld("right", <<operand_graph>>)>>

\* op2 is the name the tagger gives the second operator's field
extended_math(op2) ==
    <<Fld("left", <<operand_graph>>), delimiter, Fld("operator", <<math_operator>>),
      delimiter, Fld("middle", <<operand_graph>>), delimiter, Fld(op2, <<math_operator>>),
      delimiter, Fld("right", <<operand_graph>>)>>

\* sep is what the tagger puts between a field and the next where it does
\* not use the delimiter: nothing, or an inserted space
operator_number(sep) ==
    <<Fld("left", <<>>)>> \o sep
    \o <<Fld("operator", <<math_operator>>), delimiter, Fld("right", <<operand_graph>>)>>

number_operator(sep) ==
    <<Fld("left", <<operand_graph>>), delimiter, Fld("operator", <<math_operator>>)>>
    \o sep \o <<Fld("right", <<>>)>>

standalone_operator(sep) ==
    <<Fld("left", <<>>)>> \o sep \o <<Fld("operator", <<math_operator>>)>>
    \o sep \o <<Fld("right", <<>>)>>

\* opd is the operand part, sep what follows each field but the last,
\* trail what follows the last
math_expression_tight_minus_equals(opd, sep, trail) ==
    <<Fld("left", <<opd>>)>> \o sep
    \o <<Fld("operator", <<Cross("-", FromWord)>>)>> \o sep
    \o <<Fld("middle", <<opd>>)>> \o sep
    \o <<Fld("operator_two", <<Cross("=", EqualsWord)>>)>> \o sep
    \o <<Fld("right", <<opd>>)>> \o trail

math_expression_tight_minus_text(opd, sep, trail) ==
    <<Fld("left", <<opd>>)>> \o sep
    \o <<Fld("operator", <<Cross("-", FromWord)>>)>> \o sep
    \o <<Fld("right", <<opd>>)>> \o trail

spaced_math_minus_equals ==
    <<Fld("left", <<number_graph>>), insert_space, delete_space_one,
      Fld("operator", <<Cross("-", MinusWord)>>), insert_space, delete_space_one,
      Fld("middle", <<number_graph>>), insert_space, delete_space_one,
      Fld("operator_two", <<Cross("=", EqualsWord)>>), insert_space, delete_space_one,
      Fld("right", <<number_graph>>), insert_space>>

\* the optional space after the root sign is deleted before the field opens;
\* it is read here as the first, silent part of the field
sqrt_expression ==
    <<Fld("left", <<>>), insert_space, Fld("operator", <<Cross("sq", SqrtWord)>>), insert_space,
      Fld("right", <<optional_space_sqrt, sqrt_operand>>), insert_space>>

sqrt_with_spaced_operation ==
    <<Fld("left", <<Cross("sq", SqrtWord \o <<" ">>), optional_space_sqrt, sqrt_operand>>),
      insert_space, delete_space_one, Fld("operator", <<math_operator>>),
      insert_space, delete_space_one, Fld("right", <<sqrt_operand>>), insert_space>>

sqrt_with_tight_operation ==
    <<Fld("left", <<Cross("sq", SqrtWord \o <<" ">>), sqrt_operand>>), insert_space,
      Fld("operator", <<math_operator>>), insert_space,
      Fld("right", <<sqrt_operand>>), insert_space>>

implicit_mult ==
    <<Fld("left", <<number_graph>>), insert_space, Fld("operator", <<InsertText(TimesWord)>>),
      insert_space, Fld("right", <<single_var>>), insert_space>>

\* final_graph of each math tagger: its branches and their weights
final_graph(m) ==
    CASE m = "mag.math" -> <<Branch("math_expression", 0, math_expression)>>
      [] m = "kn.math" ->
           <<Branch("math_expression", 0, math_expression),
             Branch("extended_math", 0, extended_math("operator2"))>>
      [] m = "te.math" ->
           <<Branch("tight_minus_equals", TightMinusEqualsWeight,
                    math_expression_tight_minus_equals(operand_graph, <<>>, <<>>)),
             Branch("tight_minus_text", TightMinusTextWeight,
                    math_expression_tight_minus_text(operand_graph, <<>>, <<>>)),
             Branch("math_expression", 0, math_expression),
             Branch("extended_math", 0, extended_math("operator_two"))>>
      [] m = "as.math" ->
           <<Branch("tight_minus_equals", TightMinusEqualsWeight,
                    math_expression_tight_minus_equals(operand_graph, <<>>, <<>>)),
             Branch("tight_minus_text", TightMinusTextWeight,
                    math_expression_tight_minus_text(operand_graph, <<>>, <<>>)),
             Branch("math_expression", 0, math_expression),
             Branch("extended_math", 0, extended_math("operator_two")),
             Branch("operator_number", 0, operator_number(<<>>)),
             Branch("number_operator", 0, number_operator(<<>>)),
             Branch("standalone_operator", 0, standalone_operator(<<>>))>>
      [] m = "mr.math" ->
           <<Branch("tight_minus_equals", TightMinusEqualsWeight,
                    math_expression_tight_minus_equals(operand_graph, <<insert_space>>, <<>>)),
             Branch("tight_minus_text", TightMinusTextWeight,
                    math_expression_tight_minus_text(operand_graph, <<insert_space>>, <<>>)),
             Branch("math_expression", 0, math_expression),
             Branch("extended_math", 0, extended_math("operator_two")),
             Branch("operator_number", 0, operator_number(<<insert_space>>)),
             Branch("number_operator", 0, number_operator(<<insert_space>>)),
             Branch("standalone_operator", 0, standalone_operator(<<insert_space>>))>>
      [] m = "hne.math" ->
           <<Branch("sqrt_with_spaced_operation", -2800, sqrt_with_spaced_operation),
             Branch("sqrt_with_tight_operation", -2700, sqrt_with_tight_operation),
             Branch("sqrt_expression", -2500, sqrt_expression),
             Branch("implicit_mult", -2200, implicit_mult),
             Branch("tight_minus_equals", TightMinusEqualsWeight,
                    math_expression_tight_minus_equals(number_graph, <<insert_space>>,
                                                       <<insert_space>>)),
             Branch("spaced_math_minus_equals", -1800, spaced_math_minus_equals),
             Branch("tight_minus_text", TightMinusTextWeight,
                    math_expression_tight_minus_text(number_graph, <<insert_space>>,
                                                     <<insert_space>>)),
             Branch("math_expression", 0, math_expression),
             Branch("extended_math", 0, extended_math("operator_two")),
             Branch("operator_number", 0, operator_number(<<>>)),
             Branch("number_operator", 0, number_operator(<<>>)),
             Branch("standalone_operator", 0, standalone_operator(<<>>))>>
      [] OTHER -> <<>>

\* every branch reads an operator or, for implicit_mult, a variable
MayBeMath(m, u) ==
    \E i \in 1..Len(u) : u[i] \in operators(m) \/ (m = "hne.math" /\ u[i] \in NEMO_ALPHA)

\* the math tokens tagger m writes for u; via names the branch
MathFst(m, u) ==
    IF ~MayBeMath(m, u) THEN {} ELSE
    UNION {{[cat |-> "math", body |-> r.items, w |-> final_graph(m)[b].w + r.w,
             via |-> final_graph(m)[b].name] :
              r \in MatchPattern(m, final_graph(m)[b].pat, 1, u, 0)} :
           b \in 1..Len(final_graph(m))}

-----------------------------------------------------------------------------
(* The classify graph of ClassifyFst *)

WithBias(ts, bias) == {[t EXCEPT !.w = @ + bias] : t \in ts}

\* The weighted union of the category taggers and the fallback word tagger.
\* The branches are those whose tagger this model has; hi builds a math
\* tagger but its union has no math branch.
classify(g, u) ==
    (IF g = "bn" THEN WithBias(WhiteListFst(u), WhitelistBias) ELSE {})
    \cup WithBias(IF g = "en" THEN EnCardinalFst(u) ELSE CardinalFst(u), CardinalBias)
    \cup (IF g = "bn" THEN WithBias(TelephoneFst(u), TelephoneBias(g)) ELSE {})
    \cup (IF g \in {"mr", "hne"} THEN WithBias(MathFst(MathOf(g), u), MathBias(g)) ELSE {})
    \cup WithBias({[t EXCEPT !.via = "word"] : t \in WordFst(u)}, WordBias)

IsSpaceRun(txt, p, e) == e > p /\ \A i \in (p + 1)..e : txt[i] \in NEMO_WHITE_SPACE

\* an arc reads the symbols b+1..e of the text, writes sp spaces and then
\* its token, and leads to state to
Arc(to, b, e, w, sp, kind, token) ==
    [to |-> to, b |-> b, e |-> e, w |-> w, sp |-> sp, kind |-> kind, token |-> token]

\* token: one classify token read from position p; sp spaces are written before it
TokenArcs(g, txt, p, to, sp) ==
    UNION {{Arc(to, p, e, t.w, sp, "token", t) : t \in classify(g, SubSeq(txt, p + 1, e))} :
           e \in p..Len(txt)}

\* one element of punct: a run of white space rewritten to one space, or an
\* inserted space and a punctuation token; extra more spaces are written before it
PunctArcs(txt, p, to, extra) ==
    {Arc(to, p, e, 0, extra + 1, "space", NoToken) : e \in {x \in (p + 1)..Len(txt) : IsSpaceRun(txt, p, x)}}
    \cup UNION {{Arc(to, p, e, PunctWeight + t.w, extra + 1, "punct", t) :
                   t \in PunctuationFst(SubSeq(txt, p + 1, e))} :
                e \in (p + 1)..Len(txt)}

\* delete_space: a non-empty run of white space, deleted
DeleteArcs(txt, p, to) ==
    {Arc(to, p, e, 0, 0, "space", NoToken) : e \in {x \in (p + 1)..Len(txt) : IsSpaceRun(txt, p, x)}}

\* a separator that jumps over the white space without reading it
SeparatorArcsUnread(txt, p, to) ==
    {Arc(to, e, e, 0, 1, "space", NoToken) : e \in {x \in (p + 1)..Len(txt) : IsSpaceRun(txt, p, x)}}

\* white space between two token_plus_punct, rewritten to one space
SeparatorArcs(txt, p, to) ==
    {Arc(to, p, e, 0, 1, "space", NoToken) : e \in {x \in (p + 1)..Len(txt) : IsSpaceRun(txt, p, x)}}

\* The states of the graph:
\*   init   nothing read             pre   a token_plus_punct is about to start
\*   lp     in punct before a token  tok   just after a token
\*   tp     in punct after a token   sp    in punct used as separator
\*   end    trailing space deleted   ponly in the punct-only alternative

\* the arcs that leave state s at position p and read a classify token
TokenPart(g, txt, p, s) ==
    CASE s \in {"init", "pre"} -> TokenArcs(g, txt, p, "tok", 0)
      [] s \in {"lp", "sp"} -> TokenArcs(g, txt, p, "tok", 1)
      [] OTHER -> {}

\* the arcs that leave state s at position p and read white space or punctuation
PunctPart(txt, p, s) ==
    CASE s = "init" ->
           DeleteArcs(txt, p, "pre") \cup PunctArcs(txt, p, "lp", 0)
           \cup PunctArcs(txt, p, "ponly", 0)
      [] s = "pre" -> PunctArcs(txt, p, "lp", 0)
      [] s = "lp" -> PunctArcs(txt, p, "lp", 0) \cup PunctArcs(txt, p, "lp", 1)
      [] s = "tok" ->
           PunctArcs(txt, p, "tp", 1) \cup PunctArcs(txt, p, "sp", 1)
           \cup SeparatorArcs(txt, p, "pre") \cup DeleteArcs(txt, p, "end")
      [] s = "tp" ->
           PunctArcs(txt, p, "tp", 0) \cup PunctArcs(txt, p, "tp", 1)
           \cup PunctArcs(txt, p, "sp", 1)
           \cup SeparatorArcs(txt, p, "pre") \cup DeleteArcs(txt, p, "end")
      [] s = "sp" -> PunctArcs(txt, p, "sp", 0) \cup PunctArcs(txt, p, "lp", 1)
      [] s = "ponly" -> PunctArcs(txt, p, "ponly", 0)
      [] OTHER -> {}

Arcs(g, txt, p, s) == TokenPart(g, txt, p, s) \cup PunctPart(txt, p, s)

FinalStates == {"tok", "tp", "end", "ponly"}

-----------------------------------------------------------------------------
(* Shortest distance *)

\* the states in an order in which every arc that reads nothing leads to an
\* earlier one
StateOrder == <<"end", "ponly", "tp", "tok", "sp", "lp", "pre", "init">>

Clip(v) == IF v >= Infinity THEN Infinity ELSE v

\* a greedy distance: only the arcs of least own weight are followed
NodeDistanceGreedy(g, txt, p, s, table) ==
    LET arcs == Arcs(g, txt, p, s)
        best == {a \in arcs : \A other \in arcs : a.w <= other.w}
    IN  Min({Infinity}
            \cup (IF p = Len(txt) /\ s \in FinalStates THEN {0} ELSE {})
            \cup {Clip(a.w + table[<<a.e, a.to>>]) : a \in best})

\* weight of the lightest way from (p, s) to acceptance, given table for
\* the nodes the arcs lead to
NodeDistance(g, txt, p, s, table) ==
    Min({Infinity}
        \cup (IF p = Len(txt) /\ s \in FinalStates THEN {0} ELSE {})
        \cup {Clip(a.w + table[<<a.e, a.to>>]) : a \in Arcs(g, txt, p, s)})

\* table extended with the first k states of StateOrder at position p
RECURSIVE Relaxed(_, _, _, _, _)
Relaxed(g, txt, p, k, table) ==
    IF k = 0 THEN table
    ELSE LET before == Relaxed(g, txt, p, k - 1, table)
         IN  (<<p, StateOrder[k]>> :> NodeDistance(g, txt, p, StateOrder[k], before)) @@ before

\* the weight of the lightest output of math tagger m for txt
MathDistance(m, txt) == Min({Infinity} \cup {t.w : t \in MathFst(m, txt)})

-----------------------------------------------------------------------------
(* Inputs *)

CoreAlphabet == {"1", "n1", "k", "a", " ", ";", "-", "=", "_", "em", "sq"}
MathAlphabet == {"1", "-", "+", "="}
MathOperators == {"-", "+", "="}

\* two or three numbers joined by operators, no space
Expressions ==
    {<<"1", o, "2">> : o \in MathOperators}
    \cup {<<"1", o[1], "2", o[2], "1">> : o \in MathOperators \X MathOperators}

\* n copies of c
Repeat(c, n) == [i \in 1..n |-> c]

\* digit strings around the telephone length: ones followed by zeros
DigitRuns ==
    {Repeat("1", n - z) \o Repeat("0", z) : n \in (min_digits - 1)..(min_digits + 1), z \in 0..7}

\* telephone numbers of min_digits digits, in ASCII digits and in the digits
\* of the script
TelephoneRuns ==
    {[i \in 1..min_digits |-> IF i % 2 = 1 THEN d[1] ELSE d[2]] :
        d \in {<<"1", "2">>, <<"n1", "n0">>}}

\* n numbers joined by semicolons, no space
SemicolonList(n) == [i \in 1..(2 * n - 1) |-> IF i % 2 = 1 THEN "1" ELSE ";"]

SpacedMath == {<<"1", " ", "+", " ", "2">>, <<"1", " ", "-", " ", "2", " ", "=", " ", "1">>,
               <<"1", "+", " ", "2">>}

\* two tokens with white space, punctuation or a joiner between them
Phrases ==
    {<<"1", " ", "k">>, <<"1", ";", "1">>, <<"1", "em", "n1">>, <<"k", " ", ";", "1">>,
     <<"sq", "1", "-", "k">>, <<"n1", "-", "n1", "=", "n1">>}

Inputs(g) ==
    IF g \in ClassifyLangs
    THEN SeqsUpTo(CoreAlphabet, MaxLen) \cup Phrases
         \cup (IF g = "bn" THEN DigitRuns \cup TelephoneRuns ELSE Expressions \cup SpacedMath)
    ELSE SeqsUpTo(MathAlphabet, MaxMathLen) \cup Expressions \cup SpacedMath

-----------------------------------------------------------------------------
(* The state machine *)

NoOutput == [tok |-> NoToken, nTok |-> 0, nPunct |-> 0, gap |-> 0]

\* what the walk has written, as far as the state keeps it
Output == [tok |-> tok, nTok |-> nTok, nPunct |-> nPunct, gap |-> gap]

\* Construction of a classifier and its cache archive
MaxProcs == 2
MaxBuilds == 2
Procs == 1..MaxProcs

BuildLangs == {"hi", "hne", "bn"}
InputCases == {"cased", "lower_cased"}
\* a path is the sequence of its components
WhitelistPaths == {<<"a", "wl.tsv">>, <<"b", "wl.tsv">>}
NoWhitelist == <<>>
WhitelistContents == {"w1", "w2"}
CacheDirs == {"None", "cache"}

\* the arguments of a construction; the flags that have no effect together
\* with others are left at their defaults
Configs ==
    {c \in [lang : BuildLangs, deterministic : BOOLEAN, input_case : InputCases,
            whitelist : WhitelistPaths \cup {NoWhitelist}, cache_dir : CacheDirs,
            overwrite_cache : BOOLEAN] :
        /\ c.deterministic \/ c.input_case = "cased"
        /\ c.overwrite_cache => c.cache_dir # "None"}
NoConfig == [lang |-> "none"]

\* os.path.basename
Basename(path) == IF path = <<>> THEN "" ELSE path[Len(path)]

\* the prefix each classifier writes at the head of its archive's name
FarPrefix(lang) ==
    CASE lang = "hi" -> "hi_tn_"
      [] lang = "hne" -> "hi_tn_"
      [] lang = "bn" -> "bn_tn_"
      [] lang = "mr" -> "mr_tn_"

NoFarFile == <<>>

\* far_file: the archive a configuration resolves to
far_file(cfg) ==
    IF cfg.cache_dir # "None"
    THEN <<cfg.cache_dir, FarPrefix(cfg.lang), cfg.deterministic, cfg.input_case,
           Basename(cfg.whitelist)>>
    ELSE NoFarFile

FarFiles == {far_file(c) : c \in Configs} \ {NoFarFile}

NoFst == [lang |-> "none", complete |-> FALSE]
NoFile == [lang |-> "absent", complete |-> FALSE]

\* the grammar the build writes into self.fst: the whitelist is read from its file
Built(cfg, lex) ==
    [lang |-> cfg.lang, deterministic |-> cfg.deterministic, input_case |-> cfg.input_case,
     whitelist |-> IF cfg.whitelist = NoWhitelist THEN "default" ELSE lex[cfg.whitelist],
     complete |-> TRUE]

\* the relation a grammar defines
Relation(g) == [f \in DOMAIN g \ {"complete"} |-> g[f]]

\* no construction has rebuilt an archive
NoRebuild == [file |-> NoFarFile, fst |-> NoFst]

\* no construction has started, the cache directory is empty
CacheIdle ==
    /\ files = [f \in FarFiles |-> NoFile]
    /\ lexicon = [w \in WhitelistPaths |-> IF w[1] = "a" THEN "w1" ELSE "w2"]
    /\ config = [p \in Procs |-> NoConfig]
    /\ pc = [p \in Procs |-> "idle"]
    /\ fst = [p \in Procs |-> NoFst]
    /\ builds = 0
    /\ rebuilt = NoRebuild

\* Lexicon tables written in the code, and the transducers made of them
MaxKeyLen == 2
AsciiDigits == {"0", "1", "2", "3", "4", "5", "6", "7", "8", "9"}

\* ("0", "०") ... ("9", "९"): the native digit of d is written n<d>
arabic_to_magadhi_digit ==
    <<<<"0", "n0">>, <<"1", "n1">>, <<"2", "n2">>, <<"3", "n3">>, <<"4", "n4">>,
      <<"5", "n5">>, <<"6", "n6">>, <<"7", "n7">>, <<"8", "n8">>, <<"9", "n9">>>>

\* ("0", "సున్నా") ... ("9", "తొమ్మిది"): the words in Latin letters
ascii_digit_to_word ==
    <<<<"0", "sunna">>, <<"1", "okati">>, <<"2", "rendu">>, <<"3", "mudu">>,
      <<"4", "nalugu">>, <<"5", "aidu">>, <<"6", "aru">>, <<"7", "edu">>,
      <<"8", "enimidi">>, <<"9", "tommidi">>>>

LexiconNames == {"arabic_to_magadhi_digit", "arabic_to_magadhi_number", "ascii_digit_to_word"}
NoLexicon == "none"

\* the table a transducer is made of
TableOf(l) ==
    IF l = "ascii_digit_to_word" THEN ascii_digit_to_word ELSE arabic_to_magadhi_digit

Keys(tbl) == {<<tbl[i][1]>> : i \in DOMAIN tbl}

\* the outputs a table declares for the key s
Declared(tbl, s) == {<<tbl[i][2]>> : i \in {j \in DOMAIN tbl : <<tbl[j][1]>> = s}}

\* a table compiled with keys and values changed over
string_map_inverted(tbl, s) ==
    {<<tbl[i][1]>> : i \in {j \in DOMAIN tbl : <<tbl[j][2]>> = s}}

\* pynini.string_map(tbl) applied to s: the union of cross(key, value), read
\* along the path whose input is s
string_map(tbl, s) ==
    {<<tbl[i][2]>> : i \in {j \in DOMAIN tbl : <<tbl[j][1]>> = s}}

\* pynini.closure(string_map(tbl)) applied to s: s is cut into keys
RECURSIVE closure(_, _)
closure(tbl, s) ==
    IF s = <<>> THEN {<<>>}
    ELSE UNION {{a \o b : a \in string_map(tbl, SubSeq(s, 1, k)),
                          b \in closure(tbl, SubSeq(s, k + 1, Len(s)))} :
                k \in 1..Len(s)}

\* the transducer named l applied to s
ApplyLexicon(l, s) ==
    IF l = "arabic_to_magadhi_number" THEN closure(TableOf(l), s)
    ELSE string_map(TableOf(l), s)

Unapplied == {<<"unapplied">>}

\* no lexicon is applied on its own
LexIdle ==
    /\ transducer = NoLexicon
    /\ outs = Unapplied

\* no rule is applied on its own
RuleIdle ==
    /\ rule = NoRule
    /\ passes = 0
    /\ prior = <<>>

\* nothing is verbalized
OutIdle == spoken = <<>>

TagIdle == vstage = "idle" /\ tagged = {} /\ verbalized = {}

ExtraIdle == RuleIdle /\ CacheIdle /\ LexIdle /\ OutIdle /\ TagIdle

WalkStart(gs, txts) ==
    /\ grammar \in gs
    /\ raw \in txts
    /\ text = raw
    /\ stage = 0
    /\ dist = <<>>
    /\ optimum = Infinity
    /\ pos = 0
    /\ tstate = "rewrite"
    /\ cost = 0
    /\ tok = NoToken
    /\ nTok = 0
    /\ nWord = 0
    /\ nPunct = 0
    /\ gap = 0
    /\ fmt = TRUE
    /\ spaced = TRUE
    /\ cover = <<>>
    /\ selected = FALSE
    /\ calls = 0
    /\ prev = NoOutput

Start(gs, txts) ==
    /\ WalkStart(gs, txts)
    /\ ExtraIdle

Init ==
    /\ grammar \in ClassifyLangs
    /\ Start({grammar}, Inputs(grammar))

\* the next rule of the cascade rewrites the text
ApplyRule ==
    /\ tstate = "rewrite"
    /\ stage < Len(Cascade(grammar))
    /\ text' = cdrewrite(Cascade(grammar)[stage + 1], text)
    /\ stage' = stage + 1
    /\ UNCHANGED <<grammar, raw, dist, optimum, pos, tstate, cost, tok, nTok, nWord, nPunct,
                   gap, fmt, spaced, cover, selected, calls, prev>>
    /\ UNCHANGED extraVars

\* the rewritten text is composed with the graph
Compose ==
    /\ tstate = "rewrite"
    /\ stage = Len(Cascade(grammar))
    /\ tstate' = "distance"
    /\ cover' = [i \in 1..Len(text) |-> 0]
    /\ UNCHANGED <<grammar, raw, text, stage, dist, optimum, pos, cost, tok, nTok, nWord,
                   nPunct, gap, fmt, spaced, selected, calls, prev>>
    /\ UNCHANGED extraVars

\* the position whose distances are computed next: the last one first
RelaxPos == Len(text) - (Cardinality(DOMAIN dist) \div Len(StateOrder))

\* shortest distance, one position of the text at a time; after position 0
\* the distance of the whole text is known and the walk can start
Relax ==
    /\ grammar \in Classifiers
    /\ tstate = "distance"
    /\ LET table == Relaxed(grammar, text, RelaxPos, Len(StateOrder), dist)
       IN  IF RelaxPos > 0
           THEN /\ dist' = table
                /\ UNCHANGED <<tstate, optimum>>
           ELSE /\ dist' = <<>>
                /\ optimum' = table[<<0, "init">>]
                /\ tstate' = "init"
    /\ UNCHANGED <<grammar, raw, text, stage, pos, cost, tok, nTok, nWord, nPunct, gap,
                   fmt, spaced, cover, selected, calls, prev>>
    /\ UNCHANGED extraVars

\* shortest distance over the branches of a math tagger on its own
RelaxMath ==
    /\ grammar \in MathTaggers
    /\ tstate = "distance"
    /\ optimum' = MathDistance(grammar, text)
    /\ tstate' = "init"
    /\ UNCHANGED <<grammar, raw, text, stage, dist, pos, cost, tok, nTok, nWord, nPunct, gap,
                   fmt, spaced, cover, selected, calls, prev>>
    /\ UNCHANGED extraVars

\* a token has its markers: fields with a name, one space between two fields
WellFormed(t) ==
    /\ Len(t.body) % 2 = 1
    /\ \A i \in 1..Len(t.body) :
         IF i % 2 = 1 THEN t.body[i].f \notin {"", " "} ELSE t.body[i] = Space

Cap2(n) == IF n > 2 THEN 2 ELSE n

Consume(p, e) == [i \in DOMAIN cover |-> IF p < i /\ i <= e THEN cover[i] + 1 ELSE cover[i]]

\* the walk follows arc a
Step(a) ==
    /\ pos' = a.e
    /\ tstate' = a.to
    /\ cost' = cost + a.w
    /\ cover' = Consume(a.b, a.e)
    /\ IF a.kind = "space"
       THEN /\ gap' = Cap2(gap + a.sp)
            /\ UNCHANGED <<tok, nTok, nWord, nPunct, fmt, spaced>>
       ELSE /\ gap' = 0
            /\ spaced' = (spaced /\ (nTok + nPunct = 0 \/ gap + a.sp = 1))
            /\ fmt' = (fmt /\ WellFormed(a.token))
            /\ tok' = IF a.kind = "token" THEN a.token ELSE tok
            /\ nTok' = IF a.kind = "token" THEN nTok + 1 ELSE nTok
            /\ nWord' = IF a.kind = "token" /\ a.token.via = "word" THEN nWord + 1 ELSE nWord
            /\ nPunct' = IF a.kind = "punct" THEN nPunct + 1 ELSE nPunct
    /\ UNCHANGED <<grammar, raw, text, stage, dist, optimum, selected, calls, prev>>

Follow(a) ==
    /\ Step(a)
    /\ UNCHANGED extraVars

Walking == grammar \in Classifiers /\ tstate \notin {"rewrite", "distance"} /\ ~selected

ClassifyToken ==
    /\ Walking
    /\ \E a \in TokenPart(grammar, text, pos, tstate) : Follow(a)

PunctToken ==
    /\ Walking
    /\ \E a \in {x \in PunctPart(text, pos, tstate) : x.kind = "punct"} : Follow(a)

WhiteSpace ==
    /\ Walking
    /\ \E a \in {x \in PunctPart(text, pos, tstate) : x.kind = "space"} : Follow(a)

\* a math tagger on its own reads the whole text as one token
Tag ==
    /\ grammar \in MathTaggers
    /\ tstate = "init"
    /\ ~selected
    /\ \E t \in MathFst(grammar, text) :
         Follow(Arc("tok", 0, Len(text), t.w, 0, "token", t))

Accepted == tstate \in FinalStates /\ pos = Len(text)

\* shortest-path returns an accepting path of least weight
ShortestPath ==
    /\ Accepted
    /\ ~selected
    /\ cost = optimum
    /\ selected' = TRUE
    /\ UNCHANGED <<grammar, raw, text, stage, dist, optimum, pos, tstate, cost, tok, nTok,
                   nWord, nPunct, gap, fmt, spaced, cover, calls, prev>>
    /\ UNCHANGED extraVars

\* normalize is called again on the same input
Renormalize ==
    /\ selected
    /\ calls + 1 < MaxCalls
    /\ calls' = calls + 1
    /\ prev' = Output
    /\ selected' = FALSE
    /\ pos' = 0
    /\ tstate' = "init"
    /\ cost' = 0
    /\ tok' = NoToken
    /\ nTok' = 0
    /\ nWord' = 0
    /\ nPunct' = 0
    /\ gap' = 0
    /\ fmt' = TRUE
    /\ spaced' = TRUE
    /\ cover' = [i \in DOMAIN cover |-> 0]
    /\ UNCHANGED <<grammar, raw, text, stage, dist, optimum>>
    /\ UNCHANGED extraVars

Next ==
    \/ ApplyRule
    \/ Compose
    \/ Relax
    \/ ClassifyToken
    \/ PunctToken
    \/ WhiteSpace
    \/ ShortestPath

Spec == Init /\ [][Next]_vars

\* A math tagger applied on its own, and normalize called more than once
InitMath ==
    /\ grammar \in MathTaggers
    /\ Start({grammar}, Inputs(grammar))

NextMath ==
    \/ Compose
    \/ RelaxMath
    \/ Tag
    \/ ShortestPath
    \/ Renormalize

SpecMath == InitMath /\ [][NextMath]_vars

\* Long lists of numbers through the bn classifier
LongInputs == {SemicolonList(n) : n \in {1, 2, MaxItems}}

InitLong == Start({"bn"}, LongInputs)

NextLong ==
    \/ ApplyRule
    \/ Compose
    \/ Relax
    \/ ClassifyToken
    \/ PunctToken
    \/ ShortestPath

SpecLong == InitLong /\ [][NextLong]_vars

\* One rewrite rule applied on its own, again and again
MaxPasses == 2

\* texts in which a rule finds several places, or its own output next to one
RuleTexts ==
    {<<"a", "=", "=", "1">>, <<"n1", "n1", "n1">>, <<"1", "em", "em", "1">>,
     <<"sq", "sq", "1">>, <<"1", "_", "n1", "_", "k">>, <<"1", "-", "k", "-", "k">>}

RulesOf(g) == {Cascade(g)[i] : i \in 1..Len(Cascade(g))}

InitRule ==
    /\ WalkStart({"bn", "mr", "hne"}, SeqsUpTo(CoreAlphabet, MaxLen) \cup Phrases \cup RuleTexts)
    /\ CacheIdle
    /\ LexIdle
    /\ OutIdle
    /\ TagIdle
    /\ rule \in RulesOf(grammar)
    /\ passes = 0
    /\ prior = <<>>

\* the compiled rule is applied to the text it wrote last
ApplyAlone ==
    /\ passes < MaxPasses
    /\ text' = cdrewrite(rule, text)
    /\ prior' = text
    /\ passes' = passes + 1
    /\ UNCHANGED <<grammar, raw, stage, dist, optimum, pos, tstate, cost, tok, nTok, nWord,
                   nPunct, gap, fmt, spaced, cover, selected, calls, prev, rule>>
    /\ UNCHANGED <<cacheVars, lexVars, outVars, tagVars>>

NextRule == ApplyAlone

SpecRule == InitRule /\ [][NextRule]_vars

\* Constructions of classifiers that share a cache directory
InitBuild ==
    /\ WalkStart({"hi"}, {<<>>})
    /\ RuleIdle
    /\ CacheIdle
    /\ LexIdle
    /\ OutIdle
    /\ TagIdle

\* ClassifyFst(...) is called: far_file is resolved from the arguments
ConstructWith(p, cfgs) ==
    /\ pc[p] = "idle"
    /\ builds < MaxBuilds
    /\ \E cfg \in cfgs : config' = [config EXCEPT ![p] = cfg]
    /\ pc' = [pc EXCEPT ![p] = "exists"]
    /\ builds' = builds + 1
    /\ UNCHANGED <<files, lexicon, fst, rebuilt>>
    /\ UNCHANGED <<walkVars, ruleVars, lexVars, outVars, tagVars>>

Construct(p) == ConstructWith(p, Configs)

\* a check of the archive that leaves overwrite_cache out
ExistsUnlessNone(p) ==
    /\ pc[p] = "exists"
    /\ pc' = [pc EXCEPT ![p] =
                IF /\ far_file(config[p]) # NoFarFile
                   /\ files[far_file(config[p])] # NoFile
                THEN "load" ELSE "build"]
    /\ UNCHANGED <<files, lexicon, config, fst, builds, rebuilt>>
    /\ UNCHANGED <<walkVars, ruleVars, lexVars, outVars, tagVars>>

\* if not overwrite_cache and far_file and os.path.exists(far_file)
Exists(p) ==
    /\ pc[p] = "exists"
    /\ pc' = [pc EXCEPT ![p] =
                IF /\ ~config[p].overwrite_cache
                   /\ far_file(config[p]) # NoFarFile
                   /\ files[far_file(config[p])] # NoFile
                THEN "load" ELSE "build"]
    /\ UNCHANGED <<files, lexicon, config, fst, builds, rebuilt>>
    /\ UNCHANGED <<walkVars, ruleVars, lexVars, outVars, tagVars>>

\* self.fst = pynini.Far(far_file)["tokenize_and_classify"]; an archive that
\* is still being written is read as far as it goes, or the read fails
Load(p) ==
    /\ pc[p] = "load"
    /\ fst' = [fst EXCEPT ![p] = files[far_file(config[p])]]
    /\ \E to \in IF files[far_file(config[p])].complete THEN {"done"} ELSE {"done", "failed"} :
         pc' = [pc EXCEPT ![p] = to]
    /\ UNCHANGED <<files, lexicon, config, builds, rebuilt>>
    /\ UNCHANGED <<walkVars, ruleVars, lexVars, outVars, tagVars>>

\* the grammar is built from the taggers
Build(p) ==
    /\ pc[p] = "build"
    /\ fst' = [fst EXCEPT ![p] = Built(config[p], lexicon)]
    /\ pc' = [pc EXCEPT ![p] = IF far_file(config[p]) # NoFarFile THEN "save" ELSE "done"]
    /\ rebuilt' = IF far_file(config[p]) # NoFarFile
                  THEN [file |-> far_file(config[p]), fst |-> Built(config[p], lexicon)]
                  ELSE rebuilt
    /\ UNCHANGED <<files, lexicon, config, builds>>
    /\ UNCHANGED <<walkVars, ruleVars, lexVars, outVars, tagVars>>

\* generator_main opens the archive file for writing
SaveBegin(p) ==
    /\ pc[p] = "save"
    /\ files' = [files EXCEPT ![far_file(config[p])] = [fst[p] EXCEPT !.complete = FALSE]]
    /\ pc' = [pc EXCEPT ![p] = "saving"]
    /\ UNCHANGED <<lexicon, config, fst, builds, rebuilt>>
    /\ UNCHANGED <<walkVars, ruleVars, lexVars, outVars, tagVars>>

\* generator_main has written the grammar and closes the file
SaveEnd(p) ==
    /\ pc[p] = "saving"
    /\ files' = [files EXCEPT ![far_file(config[p])] = fst[p]]
    /\ pc' = [pc EXCEPT ![p] = "done"]
    /\ UNCHANGED <<lexicon, config, fst, builds, rebuilt>>
    /\ UNCHANGED <<walkVars, ruleVars, lexVars, outVars, tagVars>>

\* the classifier object is dropped
Release(p) ==
    /\ pc[p] \in {"done", "failed"}
    /\ pc' = [pc EXCEPT ![p] = "idle"]
    /\ config' = [config EXCEPT ![p] = NoConfig]
    /\ fst' = [fst EXCEPT ![p] = NoFst]
    /\ UNCHANGED <<files, lexicon, builds, rebuilt>>
    /\ UNCHANGED <<walkVars, ruleVars, lexVars, outVars, tagVars>>

\* between two constructions a whitelist file is given other contents
EditWhitelist ==
    /\ \A p \in Procs : pc[p] = "idle"
    /\ \E w \in WhitelistPaths, c \in WhitelistContents :
         /\ lexicon[w] # c
         /\ lexicon' = [lexicon EXCEPT ![w] = c]
    /\ UNCHANGED <<files, config, pc, fst, builds, rebuilt>>
    /\ UNCHANGED <<walkVars, ruleVars, lexVars, outVars, tagVars>>

NextBuild ==
    \/ \E p \in Procs : Construct(p)
    \/ \E p \in Procs : Exists(p)
    \/ \E p \in Procs : Load(p)
    \/ \E p \in Procs : Build(p)
    \/ \E p \in Procs : SaveBegin(p)
    \/ \E p \in Procs : SaveEnd(p)
    \/ \E p \in Procs : Release(p)
    \/ EditWhitelist

SpecBuild == InitBuild /\ [][NextBuild]_vars

\* A lexicon transducer applied on its own to a string of digits
InitLexicon ==
    /\ WalkStart({"hi"}, SeqsUpTo(AsciiDigits, MaxKeyLen))
    /\ RuleIdle
    /\ CacheIdle
    /\ OutIdle
    /\ TagIdle
    /\ transducer \in LexiconNames
    /\ outs = Unapplied

\* the input is composed with the transducer and the outputs are collected
Lookup ==
    /\ outs = Unapplied
    /\ outs' = ApplyLexicon(transducer, raw)
    /\ UNCHANGED <<walkVars, ruleVars, cacheVars, outVars, tagVars, transducer>>

NextLexicon == Lookup

SpecLexicon == InitLexicon /\ [][NextLexicon]_vars

\* Constructions one after another by one process, with arguments that
\* resolve to one archive of the cache directory or to no archive
SharedKey == <<"cache", "hi_tn_", TRUE, "cased", "wl.tsv">>

SharedConfigs == {c \in Configs : far_file(c) = SharedKey \/ (far_file(c) = NoFarFile /\ c.deterministic /\ c.input_case = "cased" /\ c.whitelist # NoWhitelist)}

OneProcess == {p \in Procs : \A q \in Procs : p <= q}

InitCache == InitBuild

NextCache ==
    \/ \E p \in OneProcess : ConstructWith(p, SharedConfigs)
    \/ \E p \in OneProcess : Exists(p)
    \/ \E p \in OneProcess : Load(p)
    \/ \E p \in OneProcess : Build(p)
    \/ \E p \in OneProcess : SaveBegin(p)
    \/ \E p \in OneProcess : SaveEnd(p)
    \/ \E p \in OneProcess : Release(p)
    \/ EditWhitelist

SpecCache == InitCache /\ [][NextCache]_vars

\* The English normalizer on sentences that hold one integer
MaxEnDigits == 7
\* longest run of digits in the inputs of a tagger
MaxTagDigits == 1

\* the integer of n digits 1 2 2 2 ...
DigitRun(n) == [i \in 1..n |-> IF i = 1 THEN "1" ELSE "2"]

\* round numbers of 7 to 10 digits: ones followed by six zeros
RoundIntegers == {Repeat("1", n - 6) \o Repeat("0", 6) : n \in 7..10}

EnIntegers == {<<"2">>, <<"0">>, <<"0", "2">>, <<"2", "0", "0", "0", "0", "0">>}
              \cup {DigitRun(n) : n \in 1..MaxEnDigits}
              \cup RoundIntegers

\* "I have 2 apples." and shorter sentences; ";" is the mark at the end
EnSentences ==
    UNION {{<<"a", " ", "a", " ">> \o d \o <<" ", "a", ";">>, <<"a", " ">> \o d,
            d \o <<" ", "a">>, d} : d \in EnIntegers}

InitEn == Start({"en"}, EnSentences)

\* what the verbalizer writes for the token of arc a
Verbalize(a) ==
    CASE a.kind = "space" -> <<>>
      [] a.token.cat = "cardinal" -> <<FieldValue(a.token, "integer")>>
      [] OTHER -> <<FieldValue(a.token, "name")>>

\* the walk follows arc a and the token is verbalized
Say(a) ==
    /\ Step(a)
    /\ spoken' = spoken \o Verbalize(a)
    /\ UNCHANGED <<ruleVars, cacheVars, lexVars, tagVars>>

SayToken ==
    /\ Walking
    /\ \E a \in TokenPart(grammar, text, pos, tstate) : Say(a)

SayPunct ==
    /\ Walking
    /\ \E a \in {x \in PunctPart(text, pos, tstate) : x.kind = "punct"} : Say(a)

SaySpace ==
    /\ Walking
    /\ \E a \in {x \in PunctPart(text, pos, tstate) : x.kind = "space"} : Say(a)

NextEn ==
    \/ Compose
    \/ Relax
    \/ SayToken
    \/ SayPunct
    \/ SaySpace
    \/ ShortestPath

SpecEn == InitEn /\ [][NextEn]_vars

-----------------------------------------------------------------------------
(* A tagger and its verbalizer.  The tagger writes a token string: field     *)
(* keys, spaces, quotes and the words of the values, symbol by symbol; the   *)
(* verbalizer reads that string from left to right and writes the spoken     *)
(* string.  A reader returns pairs <<what was written, next position>>.      *)

Quote == "\""

\* key: "value"
Quoted(key, v) == <<key, " ", Quote>> \o v \o <<Quote>>

\* add_tokens: name { ... }
add_tokens(name, s) == <<name, " ", "{", " ">> \o s \o <<" ", "}">>

\* t has the literal lit at position p
Starts(t, p, lit) ==
    p + Len(lit) - 1 <= Len(t) /\ SubSeq(t, p, p + Len(lit) - 1) = lit

\* the places of symbol c in u
Places(u, c) == {i \in 1..Len(u) : u[i] = c}

\* delete_space of graph_utils: the positions reached from p by deleting
\* white space, none included
delete_space(t, p) ==
    {k \in p..(Len(t) + 1) : \A m \in p..(k - 1) : t[m] \in NEMO_WHITE_SPACE}

\* delete_tokens: what is left when name, the braces and the white space
\* around them are deleted
delete_tokens(name, t) ==
    IF ~Starts(t, 1, <<name>>) \/ ~Starts(t, Len(t), <<"}">>) THEN {}
    ELSE UNION {{SubSeq(t, b, e) :
                   b \in delete_space(t, o + 1),
                   e \in {k \in 0..(Len(t) - 1) : Len(t) \in delete_space(t, k + 1)}} :
                 o \in {k \in delete_space(t, 2) : Starts(t, k, <<"{">>)}}

\* a run of digits of one script
IsDigitRun(x) == x # <<>> /\ (\A i \in 1..Len(x) : x[i] \in AllDigits) /\ SameScript(x)

\* the places of a point in written with a run of digits on either side
Points(written) ==
    {k \in Places(written, ".") :
       /\ IsDigitRun(SubSeq(written, 1, k - 1))
       /\ IsDigitRun(SubSeq(written, k + 1, Len(written)))}

\* written without its last symbol
Front(written) == SubSeq(written, 1, Len(written) - 1)

\* thousands.tsv: a written quantity and its spoken word
quantities == {<<"lakh", "laksha">>}

\* the quantities that end written
QuantityAtEnd(written) ==
    {q \in quantities : written # <<>> /\ written[Len(written)] = q[1]}

\* integer_part: "..." fractional_part: "..."
final_graph_wo_sign(written) ==
    {Quoted("integer_part:", Reading(SubSeq(written, 1, i - 1)))
         \o <<" ">>
         \o Quoted("fractional_part:",
                   single_digits_graph(ToAscii(SubSeq(written, i + 1, Len(written))))) :
       i \in Points(written)}

\* a cardinal or a decimal followed by a quantity
get_quantity(written) ==
    {Quoted("integer_part:", Reading(Front(written))) \o <<" ">> \o Quoted("quantity:", <<q[2]>>) :
       q \in {r \in QuantityAtEnd(written) : IsDigitRun(Front(written))}}
    \cup {d \o <<" ">> \o Quoted("quantity:", <<q[2]>>) :
            d \in final_graph_wo_sign(Front(written)), q \in QuantityAtEnd(written)}

\* Telugu decimal tagger
DecimalTagger(written) ==
    LET neg == written # <<>> /\ written[1] = "-"
        optional_graph_negative ==
            IF neg THEN <<"negative:", " ", Quote, "true", Quote, " ">> ELSE <<>>
        d == IF neg THEN Tail(written) ELSE written
    IN  {add_tokens("decimal", optional_graph_negative \o g) :
           g \in final_graph_wo_sign(d) \cup get_quantity(d)}

\* a field read by the Telugu decimal verbalizer from position p: the key,
\* white space, a quote, any characters, a quote
DecimalField(t, p, key) ==
    IF ~Starts(t, p, <<key>>) THEN {}
    ELSE UNION {{<<SubSeq(t, o + 1, c - 1), c + 1>> : c \in {k \in Places(t, Quote) : k > o}} :
                 o \in {k \in delete_space(t, p + 1) : Starts(t, k, <<Quote>>)}}

\* Telugu decimal verbalizer: sign, integer, " point ", fractional and an
\* optional quantity
DecimalGraph(t) ==
    LET optional_sign ==
            {<<<<>>, 1>>}
            \cup (IF Starts(t, 1, <<"negative:", " ", Quote, "true", Quote>>)
                  THEN {<<<<"minus", " ">>, k>> : k \in delete_space(t, 6)} ELSE {})
        integer ==
            UNION {{<<s[1] \o f[1], f[2]>> : f \in DecimalField(t, s[2], "integer_part:")} :
                     s \in optional_sign}
        fractional ==
            UNION {UNION {{<<i[1] \o <<" ", "point", " ">> \o f[1], f[2]>> :
                             f \in DecimalField(t, k, "fractional_part:")} :
                            k \in delete_space(t, i[2])} :
                     i \in integer}
        quantity ==
            UNION {UNION {{<<f[1] \o <<" ">> \o q[1], q[2]>> :
                             q \in DecimalField(t, k, "quantity:")} :
                            k \in delete_space(t, f[2])} :
                     f \in fractional}
    IN  {g[1] : g \in {h \in fractional \cup quantity : h[2] = Len(t) + 1}}

DecimalVerbalizer(t) == UNION {DecimalGraph(b) : b \in delete_tokens("decimal", t)}

\* the signs of an exponent and their words
SignWords == {<<"-", "negative">>, <<"+", "positive">>}

\* " गुणा स्से पावर ", written between mantissa and exponent
Power == <<" ", "times ten to the power", " ">>

\* integer, point, the digits of the fraction one by one
mantissa_graph(written) ==
    {Reading(SubSeq(written, 1, i - 1)) \o <<" ", "point", " ">>
         \o single_digits_graph(ToAscii(SubSeq(written, i + 1, Len(written)))) :
       i \in Points(written)}

\* sign and exponent with no space written between the two fields
ExponentNoSpace(rest) ==
    (IF IsDigitRun(rest) THEN {Quoted("exponent:", Reading(rest))} ELSE {})
    \cup {Quoted("sign:", <<s[2]>>) \o Quoted("exponent:", Reading(Tail(rest))) :
            s \in {r \in SignWords : rest # <<>> /\ rest[1] = r[1] /\ IsDigitRun(Tail(rest))}}

\* the sign, if there is one, and the exponent
Exponent(rest) ==
    (IF IsDigitRun(rest) THEN {Quoted("exponent:", Reading(rest))} ELSE {})
    \cup {Quoted("sign:", <<s[2]>>) \o <<" ">> \o Quoted("exponent:", Reading(Tail(rest))) :
            s \in {r \in SignWords : rest # <<>> /\ rest[1] = r[1] /\ IsDigitRun(Tail(rest))}}

\* Bodo scientific tagger: the mantissa, e or E with an optional hyphen
\* before it, an optional sign, the exponent
ScientificTagger(written) ==
    UNION {{add_tokens("scientific", Quoted("mantissa:", m) \o <<" ">> \o x) :
              m \in mantissa_graph(SubSeq(written, 1, e - 1))
                    \cup (IF e > 1 /\ written[e - 1] = "-"
                          THEN mantissa_graph(SubSeq(written, 1, e - 2)) ELSE {}),
              x \in Exponent(SubSeq(written, e + 1, Len(written)))} :
            e \in Places(written, "e") \cup Places(written, "E")}

\* a field read by the Bodo scientific verbalizer from position p: the key,
\* one space, a quote, one or more characters that are not a quote, a quote
ScientificField(t, p, key) ==
    LET closing == {k \in Places(t, Quote) : k > p + 2}
    IN  IF ~Starts(t, p, <<key, " ", Quote>>) \/ closing = {} \/ Min(closing) = p + 3 THEN {}
        ELSE {<<SubSeq(t, p + 3, Min(closing) - 1), Min(closing) + 1>>}

\* the field that comes after one deleted space
AfterSpace(t, p, key) ==
    IF Starts(t, p, <<" ">>) THEN ScientificField(t, p + 1, key) ELSE {}

\* Bodo scientific verbalizer: mantissa, the power words, sign, exponent
ScientificGraph(t) ==
    LET mantissa == {<<m[1] \o Power, m[2]>> : m \in ScientificField(t, 1, "mantissa:")}
        optional_sign ==
            mantissa
            \cup UNION {{<<m[1] \o s[1] \o <<" ">>, s[2]>> : s \in AfterSpace(t, m[2], "sign:")} :
                          m \in mantissa}
        exponent ==
            UNION {{<<o[1] \o x[1], x[2]>> : x \in AfterSpace(t, o[2], "exponent:")} :
                     o \in optional_sign}
    IN  {g[1] : g \in {h \in exponent : h[2] = Len(t) + 1}}

ScientificVerbalizer(t) == UNION {ScientificGraph(b) : b \in delete_tokens("scientific", t)}

Taggers == {"te.decimal", "brx.scientific"}

Tagger(g, written) ==
    IF g = "te.decimal" THEN DecimalTagger(written) ELSE ScientificTagger(written)

Verbalizer(g, t) ==
    IF g = "te.decimal" THEN DecimalVerbalizer(t) ELSE ScientificVerbalizer(t)

\* runs of digits of one script
TagDigitRuns ==
    {x \in SeqsUpTo(AllDigits, MaxTagDigits) : IsDigitRun(x)} \cup {<<"1", "2">>, <<"n1", "n0">>}

\* a cardinal, a decimal and either of them with a quantity, with and
\* without a minus sign
DecimalTexts ==
    {s \o d : s \in {<<>>, <<"-">>},
              d \in TagDigitRuns
                    \cup {i \o <<"lakh">> : i \in TagDigitRuns}
                    \cup {i \o <<".">> \o f \o q :
                            i \in TagDigitRuns, f \in TagDigitRuns, q \in {<<>>, <<"lakh">>}}}

ScientificText(m, f, sep, sign, x) == m \o <<".">> \o f \o sep \o sign \o x

ScientificTexts ==
    {ScientificText(m, f, sep, sign, x) :
       m \in TagDigitRuns, f \in TagDigitRuns,
       sep \in {<<"e">>, <<"E">>, <<"-", "e">>, <<"-", "E">>},
       sign \in {<<>>, <<"+">>, <<"-">>},
       x \in TagDigitRuns}

InitTag ==
    /\ \/ WalkStart({"te.decimal"}, DecimalTexts)
       \/ WalkStart({"brx.scientific"}, ScientificTexts)
    /\ RuleIdle
    /\ CacheIdle
    /\ LexIdle
    /\ OutIdle
    /\ vstage = "written"
    /\ tagged = {}
    /\ verbalized = {}

\* the tagger is applied to the input
TagInput ==
    /\ vstage = "written"
    /\ tagged' = Tagger(grammar, raw)
    /\ vstage' = "tagged"
    /\ UNCHANGED <<walkVars, ruleVars, cacheVars, lexVars, outVars, verbalized>>

\* the verbalizer is applied to every token string the tagger wrote
VerbalizeTagged ==
    /\ vstage = "tagged"
    /\ verbalized' = {<<t, Verbalizer(grammar, t)>> : t \in tagged}
    /\ vstage' = "verbalized"
    /\ UNCHANGED <<walkVars, ruleVars, cacheVars, lexVars, outVars, tagged>>

NextTag == TagInput \/ VerbalizeTagged

SpecTag == InitTag /\ [][NextTag]_vars

-----------------------------------------------------------------------------
(* Properties *)

Classifying == tstate \notin {"rewrite", "distance"}

BuildsMath == {"hi", "mr", "hne"}

TightBinary(t) ==
    Len(t) = 3 /\ t[1] \in NEMO_DIGIT /\ t[2] \in MathOperators /\ t[3] \in NEMO_DIGIT

\* C3: in every classifier that builds a math grammar, two numbers joined by
\* one operator without spaces are selected as exactly one math token with
\* the fields left, operator, right, and no number or punctuation token.
C3_TightBinaryOneMathToken ==
    (selected /\ grammar \in BuildsMath /\ TightBinary(raw))
    => /\ nTok = 1
       /\ nPunct = 0
       /\ tok.cat = "math"
       /\ FieldNames(tok) = <<"left", "operator", "right">>

TightMinusEquals == <<"1", "-", "2", "=", "1">>

\* C4: the tight N-M=K is selected as one math token with the fields left,
\* operator, middle, operator_two, right, operator being the "from" idiom and
\* operator_two "equals", written by the special-idiom branch.
C4_TightMinusEqualsIdiom ==
    (selected /\ raw = TightMinusEquals)
    => /\ tok.via = "tight_minus_equals"
       /\ FieldNames(tok) = <<"left", "operator", "middle", "operator_two", "right">>
       /\ FieldValue(tok, "operator") = FromWord
       /\ FieldValue(tok, "operator_two") = EqualsWord

C7_WireFormat == Accepted => (fmt /\ spaced)

EndsInSixZeros(t) == Len(t) >= 6 /\ \A i \in (Len(t) - 5)..Len(t) : IsZero(t[i])

\* C9: a string of 9, 10 or 11 digits is selected as a plain number when it
\* ends in six zeros and as a telephone number when it does not.
C9_RoundNumberSplit ==
    (selected /\ grammar = "bn" /\ raw \in DigitRuns)
    => /\ nTok = 1
       /\ tok.cat = (IF EndsInSixZeros(raw) THEN "cardinal" ELSE "telephone")

\* the text after the whole cascade, written out rule by rule
FullyRewritten(g, t) ==
    LET symbol == cdrewrite(math_symbol_to_spaced, t)
        indic == IF g = "bn"
                 THEN cdrewrite(underscore_to_space, cdrewrite(digit_indic_insert_space, symbol))
                 ELSE symbol
        dash == cdrewrite(emdash_to_spaced, cdrewrite(emdash_joiner_to_space, indic))
    IN  IF g \in {"bn", "mr", "hne"}
        THEN cdrewrite(joiner_hyphen_to_space, cdrewrite(equals_to_spaced, dash))
        ELSE t

\* no math symbol of t is directly followed by a digit or a Latin letter
SymbolSpaced(t) ==
    \A i \in 1..(Len(t) - 1) :
        t[i] \in MathSymbols => t[i + 1] \notin (AllDigits \cup NEMO_ALPHA)

\* no hyphen of t joins a digit to a character of the script block
JoinerGone(t) ==
    \A i \in 2..(Len(t) - 1) :
        ~(t[i] = "-" /\ t[i - 1] \in AllDigits /\ t[i + 1] \in ScriptBlock)

\* C10: in every language classifier the rules run once each in one fixed
\* order, each on the text the earlier ones wrote, and the classifier reads
\* only the fully rewritten text: symbol-to-space insertion and then
\* joiner-hyphen-to-space have been applied to it.
C10_CascadeOnceInOrder ==
    /\ stage <= Len(Cascade(grammar))
    /\ \A i, j \in 1..Len(Cascade(grammar)) : Cascade(grammar)[i] = Cascade(grammar)[j] => i = j
    /\ tstate # "rewrite" =>
         /\ stage = Len(Cascade(grammar))
         /\ text = FullyRewritten(grammar, raw)
         /\ SymbolSpaced(text)
         /\ JoinerGone(text)

\* C11: a rule applied to its own output leaves it unchanged: from the second
\* application on, the text is what it was before the application.
C11_RuleIdempotent == passes >= 2 => text = prior

\* the rule rewrote the input the first time and nothing the second time
C11_Witness == passes = 2 /\ text # raw /\ text = prior

\* C12: in a selected output made of classify tokens only (the separators of
\* the input were white space), two neighbouring tokens have exactly one
\* space between them.
C12_OneSeparatorPerRun == (selected /\ nPunct = 0 /\ nTok >= 2) => spaced

\* the archive two configurations resolve to inside one cache directory
Identity(cfg) == <<cfg.lang, cfg.deterministic, cfg.input_case, cfg.whitelist>>

Cached(p) == config[p] # NoConfig /\ far_file(config[p]) # NoFarFile

\* C13: whatever the cache directory held, a finished construction holds the
\* grammar that a build from scratch gives for its configuration.
C13_CacheTransparent ==
    \A p \in Procs :
        (pc[p] = "done" /\ fst[p].complete)
            => Relation(fst[p]) = Relation(Built(config[p], lexicon))

\* C14: two configurations that differ in language, deterministic flag, input
\* case or whitelist never resolve to the same archive of a cache directory.
C14_DistinctCacheFiles ==
    \A p, q \in Procs :
        (Cached(p) /\ Cached(q) /\ Identity(config[p]) # Identity(config[q]))
            => far_file(config[p]) # far_file(config[q])

\* C15: under every interleaving a construction ends with a complete grammar:
\* none fails and none holds an archive another one had not finished writing.
C15_ConcurrentConstructions ==
    \A p \in Procs :
        /\ pc[p] # "failed"
        /\ pc[p] = "done" => fst[p].complete

\* the least weight of n numbers with a punctuation mark between two of them
StructuredWeight(n) == n * CardinalBias + (n - 1) * PunctWeight

\* the fallback bias is more than the weight of any structured tokenization
FallbackDominates == \A n \in 1..MaxItems : StructuredWeight(n) < WordBias

\* C17: a construction comes to its end only when the fallback weight
\* dominates the weights of the real categories; otherwise it fails.
C17_DominanceChecked == \A p \in Procs : pc[p] = "done" => FallbackDominates

WordWeight(u) == Min({t.w : t \in WordFst(u)})

\* the weight of going once more round the closure of the word graph, reading c
CycleWeight(c) == WordWeight(<<c, c>>) - WordWeight(<<c>>)

NegativeWeightCycle == \E c \in ScriptBlock : CycleWeight(c) < 0

\* C18: no construction comes to its end with a grammar that has a cycle of
\* negative weight.
C18_NegativeCycleRejected == \A p \in Procs : pc[p] = "done" => ~NegativeWeightCycle

\* The math verbalizer: the fields it deletes the names of, in order, each with
\* the least length of its value
VerbalField(n, least) == [f |-> n, least |-> least]
simple_expression ==
    <<VerbalField("left", 0), VerbalField("operator", 1), VerbalField("right", 0)>>
extended_expression ==
    <<VerbalField("left", 0), VerbalField("operator", 1), VerbalField("middle", 1),
      VerbalField("operator_two", 1), VerbalField("right", 0)>>
operator_number_expression == <<VerbalField("operator", 1), VerbalField("right", 0)>>
number_operator_expression == <<VerbalField("left", 0), VerbalField("operator", 1)>>
standalone_operator_expression == <<VerbalField("operator", 1)>>

VerbalizerGraph ==
    {simple_expression, extended_expression, operator_number_expression,
     number_operator_expression, standalone_operator_expression}

\* the verbalizer reads token t along one of its expressions
Verbalizes(t) ==
    LET fs == SelectSeq(t.body, IsField)
    IN  \E e \in VerbalizerGraph :
            /\ Len(e) = Len(fs)
            /\ \A i \in 1..Len(e) : fs[i].f = e[i].f /\ Len(fs[i].v) >= e[i].least

MathFields == {"left", "operator", "middle", "operator_two", "right"}

\* C16: every field of a math token the tagger selected has one of the fixed
\* names of the category, and the math verbalizer accepts the token.
C16_FieldNamesFixed ==
    (selected /\ tok.cat = "math")
        => /\ \A i \in 1..Len(FieldNames(tok)) : FieldNames(tok)[i] \in MathFields
           /\ Verbalizes(tok)

StandaloneInteger(txt) == SelectSeq(txt, LAMBDA c : c \in NEMO_DIGIT)

\* the output has the number name of the digits d
Named(d) == \E i \in 1..Len(spoken) : spoken[i] = Reading(d)

C21_SpaceOnlyBeforeLetters ==
    LET before_letters ==
            Rule("digit_indic_insert_space", "", <<" ">>, FALSE, AllDigits, NativeLetter)
    IN  (rule = digit_indic_insert_space /\ passes = 1)
            => /\ text = cdrewrite(before_letters, raw)
               /\ (\A i \in 1..Len(raw) : raw[i] \in AllDigits) => text = raw

\* N-M=K with no space, in ASCII digits or in the digits of the script
TightExpressions == {<<"1", "-", "2", "=", "1">>, <<"n1", "-", "n1", "=", "n1">>}

\* C22: the cascade gives a tight N-M=K to the classify graph as it was
\* written, in ASCII digits and in the digits of the script alike.
C22_TightExpressionUntouched ==
    (raw \in TightExpressions /\ tstate # "rewrite") => text = raw

\* token t is written by the whitelist branch for some part of the text
FromWhitelist(t) ==
    \E b \in 1..(Len(text) + 1), e \in 0..Len(text) :
        t \in WithBias(WhiteListFst(SubSeq(text, b, e)), WhitelistBias)

\* C23: the classifier is built without a whitelist file, so no token of a
\* selected output comes from the whitelist branch.
C23_NoWhitelistToken == (selected /\ nTok >= 1) => ~FromWhitelist(tok)

\* C24: the Bengali classifier reads a run of ten digits, in ASCII digits or
\* in Bengali digits, as one telephone token whose number_part has every
\* digit in order.
C24_TelephoneRead ==
    (selected /\ grammar = "bn" /\ raw \in TelephoneRuns)
    => /\ nTok = 1
       /\ tok.cat = "telephone"
       /\ tok.body = <<Field("number_part", DigitWords(raw))>>

C26_DecimalAccepted ==
    (grammar = "te.decimal" /\ vstage = "verbalized")
        => \A v \in verbalized : v[2] # {}

\* the spoken form the input of the scientific tagger stands for: mantissa,
\* the power words, the word of an explicit sign and a space, the exponent
ScientificReading(written) ==
    LET e == CHOOSE k \in 1..Len(written) : written[k] \in {"e", "E"}
        p == CHOOSE k \in 1..Len(written) : written[k] = "."
        m == IF written[e - 1] = "-" THEN e - 2 ELSE e - 1
        signed == written[e + 1] \in {"+", "-"}
        x == IF signed THEN e + 2 ELSE e + 1
    IN  Reading(SubSeq(written, 1, p - 1)) \o <<" ", "point", " ">>
            \o single_digits_graph(ToAscii(SubSeq(written, p + 1, m)))
            \o Power
            \o (IF signed
                THEN <<IF written[e + 1] = "-" THEN "negative" ELSE "positive", " ">>
                ELSE <<>>)
            \o Reading(SubSeq(written, x, Len(written)))

\* C27: the Bodo scientific verbalizer accepts the token string the tagger
\* wrote and writes the mantissa, the power words, the sign word and a space
\* exactly when the input has an explicit sign, then the exponent.
C27_ScientificRoundTrip ==
    (grammar = "brx.scientific" /\ vstage = "verbalized")
        => /\ tagged # {}
           /\ \A v \in verbalized : v[2] = {ScientificReading(raw)}

\* "1.2-e-1" was tagged and verbalized with the word of its sign
C27_Witness ==
    /\ grammar = "brx.scientific"
    /\ vstage = "verbalized"
    /\ raw = <<"1", ".", "2", "-", "e", "-", "1">>
    /\ \E v \in verbalized : \E o \in v[2] : \E i \in 1..Len(o) : o[i] = "negative"

\* the archive of the construction of process p, before and after a step
ArchiveOf(cfg) == IF cfg = NoConfig THEN NoFarFile ELSE far_file(cfg)

\* one step of constructions that come one after another
CacheStep ==
    /\ ((\A p \in Procs : pc'[p] \notin {"save", "saving"}) /\ rebuilt' # NoRebuild)
           => files'[rebuilt'.file] = rebuilt'.fst
    /\ \A p \in Procs :
         /\ (config'[p] # NoConfig /\ config'[p].overwrite_cache) => pc'[p] # "load"
         /\ (pc[p] = "load" /\ pc'[p] # "load") => files' = files
         /\ (pc'[p] # pc[p] /\ ArchiveOf(config[p]) = NoFarFile
                            /\ ArchiveOf(config'[p]) = NoFarFile) => files' = files

\* C28: when constructions that share an archive come one after another, the
\* archive holds the grammar of the last construction that rebuilt; a
\* construction with overwrite_cache never loads, a construction that loads
\* leaves the archive as it is, and one without a cache directory leaves
\* every file as it is.
C28_ArchiveHoldsLastRebuild == [][CacheStep]_vars

\* a second construction loaded the archive the first one had written, and
\* the whitelist or the language of the two differ
C28_Witness ==
    \E p \in Procs :
        /\ builds = 2
        /\ pc[p] = "done"
        /\ ~config[p].overwrite_cache
        /\ far_file(config[p]) = rebuilt.file
        /\ fst[p] = rebuilt.fst
        /\ files[rebuilt.file] = rebuilt.fst
        /\ Relation(fst[p]) # Relation(Built(config[p], lexicon))

====
